---------------------------- MODULE Spec2Model ----------------------------
(***************************************************************************)
(* Model of src/error.rs of xmlparser: the error values of the tokenizer   *)
(* (ErrorPos, StreamError, Error) and their Display implementations.       *)
(*                                                                         *)
(* Text is a sequence of characters; a character is its Unicode code       *)
(* point (a u8 cast to char is the code point of the same value).  A       *)
(* Display call either returns the text it wrote or panics; the result     *)
(* records both, with the text written to the formatter before the panic.  *)
(***************************************************************************)
EXTENDS Integers, Sequences, FiniteSets, TLC

(* ------------------------------ bounds -------------------------------- *)

\* longest data sequence (Vec<u8> / Vec<String>) a StreamError carries
MaxLen == 3

\* sampled u32 coordinates: 0 (no validation), one-digit values, a value
\* with zero digits and a ten-digit value
Rows == {0, 3, 100}
Cols == {0, 7, 2147483647}

\* sampled bytes: '\n', 'a', 'x' and a non-ASCII byte
Bytes == {10, 97, 120, 200}

\* sampled chars: '\n', '"' and U+00E9
Chars == {10, 34, 233}

\* sampled strings: "foo", "bar", "baz" and a two-line string "a\nb"
Strings == {<<102, 111, 111>>, <<98, 97, 114>>, <<98, 97, 122>>, <<97, 10, 98>>}

\* sequences over S of length 0..n
SeqUpTo(S, n) == UNION {[1..k -> S] : k \in 0..n}

(* --------------------------- value universe ---------------------------- *)

\* Option::None / no value constructed yet
None == [tag |-> "None"]

\* the token kinds (an external Display-capable enumeration)
TokenTypes == {"Comment", "Attribute"}

\* TokenType's Display: the name of the kind
TokenTypeDisplay(token_type) ==
    IF token_type = "Comment"
    THEN <<67, 111, 109, 109, 101, 110, 116>>                \* "Comment"
    ELSE <<65, 116, 116, 114, 105, 98, 117, 116, 101>>       \* "Attribute"

\* ErrorPos::new
ErrorPos_new(row, col) == [row |-> row, col |-> col]

\* #[derive(PartialEq)] on ErrorPos: field-wise comparison
ErrorPos_eq(a, b) == a.row = b.row /\ a.col = b.col

(* ------------------------- formatting results -------------------------- *)

\* fmt returned Ok(()) after writing text
Ok(text) == [panicked |-> FALSE, text |-> text]

\* fmt panicked after writing text to the formatter
Panic(text) == [panicked |-> TRUE, text |-> text]

\* write!(f, "{prefix}{}") of a nested Display result
Write(prefix, inner) ==
    IF inner.panicked THEN Panic(prefix \o inner.text)
                      ELSE Ok(prefix \o inner.text)

(* ----------------------- format string literals ------------------------ *)

\* "invalid token '"
LitInvalidToken == <<105, 110, 118, 97, 108, 105, 100, 32, 116, 111, 107, 101, 110, 32, 39>>
\* "' at "
LitQuoteAt == <<39, 32, 97, 116, 32>>
\* " cause "
LitCause == <<32, 99, 97, 117, 115, 101, 32>>
\* "unexpected token '"
LitUnexpectedToken == <<117, 110, 101, 120, 112, 101, 99, 116, 101, 100, 32, 116, 111, 107, 101, 110, 32, 39>>
\* "unknown token at "
LitUnknownToken == <<117, 110, 107, 110, 111, 119, 110, 32, 116, 111, 107, 101, 110, 32, 97, 116, 32>>
\* "unexpected end of stream"
LitUnexpectedEndOfStream == <<117, 110, 101, 120, 112, 101, 99, 116, 101, 100, 32, 101, 110, 100, 32, 111, 102, 32, 115, 116, 114, 101, 97, 109>>
\* "invalid name token"
LitInvalidName == <<105, 110, 118, 97, 108, 105, 100, 32, 110, 97, 109, 101, 32, 116, 111, 107, 101, 110>>
\* "expected '"
LitExpected == <<101, 120, 112, 101, 99, 116, 101, 100, 32, 39>>
\* "' not '"
LitNot == <<39, 32, 110, 111, 116, 32, 39>>
\* "', '"
LitSep == <<39, 44, 32, 39>>
\* "expected quote mark not '"
LitInvalidQuote == <<101, 120, 112, 101, 99, 116, 101, 100, 32, 113, 117, 111, 116, 101, 32, 109, 97, 114, 107, 32, 110, 111, 116, 32, 39>>
\* "expected space not '"
LitInvalidSpace == <<101, 120, 112, 101, 99, 116, 101, 100, 32, 115, 112, 97, 99, 101, 32, 110, 111, 116, 32, 39>>
\* "invalid reference"
LitInvalidReference == <<105, 110, 118, 97, 108, 105, 100, 32, 114, 101, 102, 101, 114, 101, 110, 99, 101>>
\* "invalid ExternalID"
LitInvalidExternalID == <<105, 110, 118, 97, 108, 105, 100, 32, 69, 120, 116, 101, 114, 110, 97, 108, 73, 68>>


(* ------------------------------ helpers -------------------------------- *)

\* <u32 as Display>::fmt: decimal digits, most significant first, "0" for 0
RECURSIVE FmtU32(_)
FmtU32(n) ==
    IF n < 10 THEN <<48 + n>>
              ELSE FmtU32(n \div 10) \o <<48 + (n % 10)>>

\* `c as char` for a u8: the char whose code point is the byte's value
AsChar(c) == c

\* String::from_utf8(vec![c]) on a one-byte vector: a lone byte is valid
\* UTF-8 exactly when it is ASCII; the string then holds that one char
String_from_utf8(bytes) ==
    IF bytes[1] < 128 THEN [ok |-> TRUE, s |-> <<bytes[1]>>]
                      ELSE [ok |-> FALSE, s |-> <<>>]

\* Iterator::skip(n) over a vector: the elements after the first n, if any
Skip(v, n) == IF Len(v) <= n THEN <<>> ELSE SubSeq(v, n + 1, Len(v))

\* SliceFrom with the range check off by one: v[len..] is refused too
SliceFrom_strict(v, start) ==
    IF start >= Len(v) THEN [ok |-> FALSE, s |-> <<>>]
                       ELSE [ok |-> TRUE, s |-> SubSeq(v, start + 1, Len(v))]

\* the range index v[start..]: out of range when start exceeds the length
SliceFrom(v, start) ==
    IF start > Len(v) THEN [ok |-> FALSE, s |-> <<>>]
                      ELSE [ok |-> TRUE, s |-> SubSeq(v, start + 1, Len(v))]

\* [String]::join(sep): the strings in order with sep between neighbours
RECURSIVE Join(_, _)
Join(list, sep) ==
    IF Len(list) = 0 THEN <<>>
    ELSE IF Len(list) = 1 THEN list[1]
    ELSE list[1] \o sep \o Join(Tail(list), sep)

(* ------------------------------ Display -------------------------------- *)

\* FmtErrorPos with the two fields written in the wrong order
FmtErrorPos_swapped(pos) == Ok(FmtU32(pos.col) \o <<58>> \o FmtU32(pos.row))

\* impl fmt::Display for ErrorPos: "{}:{}"
FmtErrorPos(pos) == Ok(FmtU32(pos.row) \o <<58>> \o FmtU32(pos.col))

\* FmtInvalidChar reading the actual byte with first() instead of chars[0]:
\* an empty vector renders an empty actual value instead of panicking
FmtInvalidChar_lenient(chars, pos) ==
    LET rest == Skip(chars, 1)
        conv == [i \in 1..Len(rest) |-> String_from_utf8(<<rest[i]>>)]
    IN  IF \E i \in 1..Len(rest) : ~conv[i].ok
        THEN Panic(<<>>)
        ELSE Write(LitExpected
                     \o Join([i \in 1..Len(rest) |-> conv[i].s], LitSep)
                     \o LitNot
                     \o (IF Len(chars) = 0 THEN <<>> ELSE <<AsChar(chars[1])>>)
                     \o LitQuoteAt,
                   FmtErrorPos(pos))

\* StreamError::InvalidChar arm: "expected '{}' not '{}' at {}"
FmtInvalidChar(chars, pos) ==
    LET rest == Skip(chars, 1)
        conv == [i \in 1..Len(rest) |-> String_from_utf8(<<rest[i]>>)]
    IN  IF \E i \in 1..Len(rest) : ~conv[i].ok
        THEN Panic(<<>>)                          \* unwrap() of an Err
        ELSE IF Len(chars) = 0
        THEN Panic(<<>>)                          \* chars[0] out of bounds
        ELSE Write(LitExpected
                     \o Join([i \in 1..Len(rest) |-> conv[i].s], LitSep)
                     \o LitNot \o <<AsChar(chars[1])>> \o LitQuoteAt,
                   FmtErrorPos(pos))

\* FmtInvalidString joining the whole vector, the actual value included
FmtInvalidString_all(strings, pos) ==
    IF Len(strings) = 0
    THEN Panic(<<>>)
    ELSE Write(LitExpected \o Join(strings, LitSep)
                 \o LitNot \o strings[1] \o LitQuoteAt,
               FmtErrorPos(pos))

\* StreamError::InvalidString arm: "expected '{}' not '{}' at {}"
FmtInvalidString(strings, pos) ==
    LET rest == SliceFrom(strings, 1)
    IN  IF ~rest.ok
        THEN Panic(<<>>)                          \* strings[1..] out of range
        ELSE IF Len(strings) = 0
        THEN Panic(<<>>)                          \* strings[0] out of bounds
        ELSE Write(LitExpected \o Join(rest.s, LitSep)
                     \o LitNot \o strings[1] \o LitQuoteAt,
                   FmtErrorPos(pos))

\* impl fmt::Display for StreamError
FmtStreamError(e) ==
    CASE e.tag = "UnexpectedEndOfStream" -> Ok(LitUnexpectedEndOfStream)
      [] e.tag = "InvalidName"           -> Ok(LitInvalidName)
      [] e.tag = "InvalidChar"           -> FmtInvalidChar(e.data, e.pos)
      [] e.tag = "InvalidQuote"          ->
            Write(LitInvalidQuote \o <<e.c>> \o LitQuoteAt, FmtErrorPos(e.pos))
      [] e.tag = "InvalidSpace"          ->
            Write(LitInvalidSpace \o <<e.c>> \o LitQuoteAt, FmtErrorPos(e.pos))
      [] e.tag = "InvalidString"         -> FmtInvalidString(e.data, e.pos)
      [] e.tag = "InvalidReference"      -> Ok(LitInvalidReference)
      [] e.tag = "InvalidExternalID"     -> Ok(LitInvalidExternalID)

\* FmtInvalidToken that never writes the cause
FmtInvalidToken_noCause(token_type, pos, cause) ==
    Ok(LitInvalidToken \o TokenTypeDisplay(token_type) \o LitQuoteAt
         \o FmtErrorPos(pos).text)

\* Error::InvalidToken arm: with and without a cause
FmtInvalidToken(token_type, pos, cause) ==
    LET head == LitInvalidToken \o TokenTypeDisplay(token_type) \o LitQuoteAt
                  \o FmtErrorPos(pos).text
    IN  IF cause # None
        THEN Write(head \o LitCause, FmtStreamError(cause))
        ELSE Ok(head)

\* FmtUnexpectedToken with the format string of the InvalidToken arm
FmtUnexpectedToken_asInvalid(token_type, pos) ==
    Write(LitInvalidToken \o TokenTypeDisplay(token_type) \o LitQuoteAt,
          FmtErrorPos(pos))

\* Error::UnexpectedToken arm
FmtUnexpectedToken(token_type, pos) ==
    Write(LitUnexpectedToken \o TokenTypeDisplay(token_type) \o LitQuoteAt,
          FmtErrorPos(pos))

\* Error::UnknownToken arm
FmtUnknownToken(pos) == Write(LitUnknownToken, FmtErrorPos(pos))

\* impl fmt::Display for Error
FmtError(e) ==
    CASE e.tag = "InvalidToken"    -> FmtInvalidToken(e.token_type, e.pos, e.cause)
      [] e.tag = "UnexpectedToken" -> FmtUnexpectedToken(e.token_type, e.pos)
      [] e.tag = "UnknownToken"    -> FmtUnknownToken(e.pos)

(* ---------------------------- state machine ---------------------------- *)

VARIABLES
    pos,    \* the ErrorPos the scanner holds, or None
    serr,   \* the StreamError under construction, or None
    err,    \* the Error returned to the caller, or None
    out     \* the outcome of the Display call made on a value, or None

vars == <<pos, serr, err, out>>

UnitTags == {"UnexpectedEndOfStream", "InvalidName", "InvalidReference",
             "InvalidExternalID"}

Init == pos = None /\ serr = None /\ err = None /\ out = None

\* ErrorPos::new(row, col): the scanner records where it stands
ErrorPosNew(row, col) ==
    /\ err = None /\ out = None
    /\ pos' = ErrorPos_new(row, col)
    /\ UNCHANGED <<serr, err, out>>

\* a data-less StreamError variant
NewUnitStreamError(tag) ==
    /\ serr = None /\ err = None /\ out = None
    /\ serr' = [tag |-> tag]
    /\ UNCHANGED <<pos, err, out>>

\* StreamError::InvalidChar(chars, pos)
NewInvalidChar(chars) ==
    /\ pos # None /\ serr = None /\ err = None /\ out = None
    /\ serr' = [tag |-> "InvalidChar", data |-> chars, pos |-> pos]
    /\ UNCHANGED <<pos, err, out>>

\* StreamError::InvalidQuote(c, pos)
NewInvalidQuote(c) ==
    /\ pos # None /\ serr = None /\ err = None /\ out = None
    /\ serr' = [tag |-> "InvalidQuote", c |-> c, pos |-> pos]
    /\ UNCHANGED <<pos, err, out>>

\* StreamError::InvalidSpace(c, pos)
NewInvalidSpace(c) ==
    /\ pos # None /\ serr = None /\ err = None /\ out = None
    /\ serr' = [tag |-> "InvalidSpace", c |-> c, pos |-> pos]
    /\ UNCHANGED <<pos, err, out>>

\* StreamError::InvalidString(strings, pos)
NewInvalidString(strings) ==
    /\ pos # None /\ serr = None /\ err = None /\ out = None
    /\ serr' = [tag |-> "InvalidString", data |-> strings, pos |-> pos]
    /\ UNCHANGED <<pos, err, out>>

\* Error::InvalidToken(token_type, pos, cause): the StreamError, if one was
\* built, moves into the Error as its cause
NewInvalidToken(token_type) ==
    /\ pos # None /\ err = None /\ out = None
    /\ err' = [tag |-> "InvalidToken", token_type |-> token_type,
               pos |-> pos, cause |-> serr]
    /\ serr' = None
    /\ UNCHANGED <<pos, out>>

\* Error::UnexpectedToken(token_type, pos)
NewUnexpectedToken(token_type) ==
    /\ pos # None /\ serr = None /\ err = None /\ out = None
    /\ err' = [tag |-> "UnexpectedToken", token_type |-> token_type, pos |-> pos]
    /\ UNCHANGED <<pos, serr, out>>

\* Error::UnknownToken(pos)
NewUnknownToken ==
    /\ pos # None /\ serr = None /\ err = None /\ out = None
    /\ err' = [tag |-> "UnknownToken", pos |-> pos]
    /\ UNCHANGED <<pos, serr, out>>

\* format!("{}", pos)
DisplayErrorPos ==
    /\ pos # None /\ out = None
    /\ out' = [of |-> "ErrorPos"] @@ FmtErrorPos(pos)
    /\ UNCHANGED <<pos, serr, err>>

\* format!("{}", stream_error)
DisplayStreamError ==
    /\ serr # None /\ out = None
    /\ out' = [of |-> "StreamError"] @@ FmtStreamError(serr)
    /\ UNCHANGED <<pos, serr, err>>

\* format!("{}", error)
DisplayError ==
    /\ err # None /\ out = None
    /\ out' = [of |-> "Error"] @@ FmtError(err)
    /\ UNCHANGED <<pos, serr, err>>

Next ==
    \/ \E row \in Rows, col \in Cols : ErrorPosNew(row, col)
    \/ \E tag \in UnitTags : NewUnitStreamError(tag)
    \/ \E chars \in SeqUpTo(Bytes, MaxLen) : NewInvalidChar(chars)
    \/ \E c \in Chars : NewInvalidQuote(c)
    \/ \E c \in Chars : NewInvalidSpace(c)
    \/ \E strings \in SeqUpTo(Strings, MaxLen) : NewInvalidString(strings)
    \/ \E token_type \in TokenTypes : NewInvalidToken(token_type)
    \/ \E token_type \in TokenTypes : NewUnexpectedToken(token_type)
    \/ NewUnknownToken
    \/ DisplayErrorPos
    \/ DisplayStreamError
    \/ DisplayError

Spec == Init /\ [][Next]_vars

(* ------------------------ vocabulary of the claims --------------------- *)

\* the strings of list[1..k] in order, with sep between neighbours
RECURSIVE Joined(_, _, _)
Joined(list, sep, k) ==
    IF k = 0 THEN <<>>
    ELSE IF k = 1 THEN list[1]
    ELSE Joined(list, sep, k - 1) \o sep \o list[k]

\* the number a string of decimal digits denotes
RECURSIVE DecimalValue(_)
DecimalValue(digits) ==
    IF Len(digits) = 0 THEN 0
    ELSE 10 * DecimalValue(SubSeq(digits, 1, Len(digits) - 1))
           + (digits[Len(digits)] - 48)

\* digits is the decimal numeral of n: digits only, no leading zero
IsDecimalOf(digits, n) ==
    /\ Len(digits) >= 1
    /\ \A i \in 1..Len(digits) : digits[i] \in 48..57
    /\ Len(digits) > 1 => digits[1] # 48
    /\ DecimalValue(digits) = n

\* sub occurs in text as a contiguous run
Contains(text, sub) ==
    \E i \in 1..(Len(text) - Len(sub) + 1) :
        SubSeq(text, i, i + Len(sub) - 1) = sub

\* the rendering "{row}:{col}" of a position
PosText(p) == FmtErrorPos(p).text

\* a Display call on a StreamError of the given variant has finished
ShownStream(tag) == out # None /\ out.of = "StreamError" /\ serr.tag = tag

\* a Display call on an Error of the given variant has finished
ShownError(tag) == out # None /\ out.of = "Error" /\ err.tag = tag

(* -------------------------------- claims ------------------------------- *)

\* C1: Error::InvalidToken(kind, pos, None) renders exactly
\* "invalid token '{kind}' at {pos}" with no cause suffix; with Some(se) it
\* renders that text followed by " cause " and the Display output of se,
\* unchanged (and shares the outcome of that Display call).
C1_InvalidTokenCause ==
    ShownError("InvalidToken") =>
        LET head == LitInvalidToken \o TokenTypeDisplay(err.token_type)
                      \o LitQuoteAt \o PosText(err.pos)
        IN  IF err.cause = None
            THEN ~out.panicked /\ out.text = head
            ELSE LET se == FmtStreamError(err.cause)
                 IN  /\ out.panicked = se.panicked
                     /\ out.text = head \o <<32, 99, 97, 117, 115, 101, 32>>
                                        \o se.text

\* an InvalidToken with an InvalidString cause has been rendered
C1_Witness ==
    /\ ShownError("InvalidToken")
    /\ err.cause # None /\ err.cause.tag = "InvalidString"
    /\ ~out.panicked

\* C2: StreamError::InvalidChar(bytes, pos) with at least two bytes renders
\* "expected '" + bytes[1:] (one character each, joined with "', '", in
\* order) + "' not '" + bytes[0] as a character + "' at {pos}".
C2_InvalidCharRendering ==
    (ShownStream("InvalidChar") /\ Len(serr.data) >= 2) =>
        LET expected == [i \in 1..(Len(serr.data) - 1) |-> <<serr.data[i + 1]>>]
        IN  /\ ~out.panicked
            /\ out.text = LitExpected \o Joined(expected, LitSep, Len(expected))
                            \o LitNot \o <<serr.data[1]>> \o LitQuoteAt
                            \o PosText(serr.pos)

\* C3: StreamError::InvalidString(strings, pos) with at least two strings
\* renders "expected '" + strings[1:] joined with "', '" in order + "' not '"
\* + strings[0] + "' at {pos}"; ["foo","bar","baz"] gives
\* "expected 'bar', 'baz' not 'foo' at {pos}".
C3_InvalidStringRendering ==
    (ShownStream("InvalidString") /\ Len(serr.data) >= 2) =>
        LET expected == Tail(serr.data)
        IN  /\ ~out.panicked
            /\ out.text = LitExpected \o Joined(expected, LitSep, Len(expected))
                            \o LitNot \o serr.data[1] \o LitQuoteAt
                            \o PosText(serr.pos)
            /\ serr.data = <<(<<102, 111, 111>>), (<<98, 97, 114>>), (<<98, 97, 122>>)>>
                 => out.text =
                      <<101, 120, 112, 101, 99, 116, 101, 100, 32, 39,
                        98, 97, 114, 39, 44, 32, 39, 98, 97, 122,
                        39, 32, 110, 111, 116, 32, 39, 102, 111, 111,
                        39, 32, 97, 116, 32>> \o PosText(serr.pos)

\* an InvalidString with an actual value and two alternatives has been rendered
C3_Witness ==
    /\ ShownStream("InvalidString")
    /\ Len(serr.data) = 3 /\ serr.data[1] # serr.data[2]
    /\ ~out.panicked

\* C4: rendering InvalidChar or InvalidString whose data sequence has length
\* exactly 1 does not panic and gives "expected '' not '{actual}' at {pos}".
C4_NoAlternatives ==
    ((ShownStream("InvalidChar") \/ ShownStream("InvalidString"))
        /\ Len(serr.data) = 1) =>
        LET actual == IF serr.tag = "InvalidChar" THEN <<serr.data[1]>>
                                                  ELSE serr.data[1]
        IN  /\ ~out.panicked
            /\ out.text = <<101, 120, 112, 101, 99, 116, 101, 100, 32, 39,
                            39, 32, 110, 111, 116, 32, 39>>
                            \o actual \o <<39, 32, 97, 116, 32>>
                            \o PosText(serr.pos)

\* an InvalidString holding only its actual value has been rendered
C4_Witness ==
    /\ ShownStream("InvalidString") /\ Len(serr.data) = 1
    /\ ~out.panicked

\* C5: Display of every Error and every StreamError produces a single line:
\* the rendered text contains no line-break character.
C5_SingleLine ==
    (out # None /\ out.of \in {"StreamError", "Error"} /\ ~out.panicked) =>
        \A i \in 1..Len(out.text) : out.text[i] \notin {10, 13}

\* the position ErrorPos::new(row, col) builds has exactly these fields
C7_Fields ==
    \A row \in Rows, col \in Cols :
        ErrorPosNew(row, col) => (pos'.row = row /\ pos'.col = col)

\* a position renders as the decimal row, a colon, the decimal col
C7_Rendering ==
    (out # None /\ out.of = "ErrorPos") =>
        /\ ~out.panicked
        /\ \E i \in 1..Len(out.text) :
              /\ out.text[i] = 58
              /\ IsDecimalOf(SubSeq(out.text, 1, i - 1), pos.row)
              /\ IsDecimalOf(SubSeq(out.text, i + 1, Len(out.text)), pos.col)
        /\ (pos.row = 3 /\ pos.col = 7) => out.text = <<51, 58, 55>>

\* == on positions holds exactly when rows and cols agree
C7_Equality ==
    (pos # None /\ serr # None /\ serr.tag \notin UnitTags) =>
        (ErrorPos_eq(pos, serr.pos)
            <=> (pos.row = serr.pos.row /\ pos.col = serr.pos.col))

\* C7: ErrorPos::new(row, col) yields a position whose fields are row and
\* col, for every sampled u32 including 0; it renders as the decimal row, a
\* colon, the decimal col (new(3, 7) renders "3:7"); two positions are equal
\* exactly when their rows and their cols are equal.
C7_ErrorPos == [][C7_Fields]_vars /\ [](C7_Rendering /\ C7_Equality)

\* a position with a zero row and a ten-digit column has been rendered
C7_Witness ==
    /\ out # None /\ out.of = "ErrorPos"
    /\ pos.row = 0 /\ pos.col = 2147483647

\* C8: Error::UnexpectedToken(kind, pos) renders exactly
\* "unexpected token '{kind}' at {pos}" and Error::UnknownToken(pos) renders
\* exactly "unknown token at {pos}", which mentions no token kind; neither
\* rendering contains a " cause " suffix.
C8_CauselessVariants ==
    /\ ShownError("UnexpectedToken") =>
          /\ ~out.panicked
          /\ out.text = <<117, 110, 101, 120, 112, 101, 99, 116, 101, 100, 32,
                          116, 111, 107, 101, 110, 32, 39>>
                          \o TokenTypeDisplay(err.token_type)
                          \o <<39, 32, 97, 116, 32>> \o PosText(err.pos)
          /\ ~Contains(out.text, <<32, 99, 97, 117, 115, 101, 32>>)
    /\ ShownError("UnknownToken") =>
          /\ ~out.panicked
          /\ out.text = <<117, 110, 107, 110, 111, 119, 110, 32, 116, 111, 107,
                          101, 110, 32, 97, 116, 32>> \o PosText(err.pos)
          /\ \A t \in TokenTypes : ~Contains(out.text, TokenTypeDisplay(t))
          /\ ~Contains(out.text, <<32, 99, 97, 117, 115, 101, 32>>)

\* an UnexpectedToken has been rendered
C8_Witness == ShownError("UnexpectedToken") /\ ~out.panicked

\* C9: Display of InvalidChar(bytes, pos) with non-empty bytes, each byte any
\* value 0..255, completes without panicking and renders every byte of
\* bytes[1:] as one character by the mapping used for bytes[0].
C9_AnyByte ==
    (ShownStream("InvalidChar") /\ Len(serr.data) >= 1) =>
        LET n == Len(serr.data) - 1
            expected == [i \in 1..n |-> <<AsChar(serr.data[i + 1])>>]
            list == Joined(expected, LitSep, n)
        IN  /\ ~out.panicked
            /\ SubSeq(out.text, Len(LitExpected) + 1,
                      Len(LitExpected) + Len(list)) = list

\* C10: nothing prevents constructing InvalidChar or InvalidString with an
\* empty sequence, and Display on such a value panics without rendering;
\* Display of every non-empty InvalidString returns a rendering.
C10_EmptyPanics ==
    /\ ((ShownStream("InvalidChar") \/ ShownStream("InvalidString"))
           /\ Len(serr.data) = 0) => (out.panicked /\ out.text = <<>>)
    /\ (ShownStream("InvalidString") /\ Len(serr.data) >= 1) => ~out.panicked

\* Display was called on an InvalidChar built with an empty sequence
C10_Witness == ShownStream("InvalidChar") /\ Len(serr.data) = 0 /\ out.panicked

=============================================================================
